---- MODULE Spec2Model ----
(***************************************************************************)
(* Model of samples/nrf9160/modem_shell/src/th/th_ctrl.c: the two-slot     *)
(* background job controller of the modem shell.                          *)
(*                                                                         *)
(* Threads: one control (shell) thread that runs th_ctrl_start,           *)
(* th_ctrl_kill, th_ctrl_kill_em_all, th_ctrl_result_print and             *)
(* th_ctrl_status_print one at a time, and one work queue thread per slot  *)
(* (th_work_q_1, th_work_q_2) that runs th_ctrl_work_handler, cut into the *)
(* steps of the handler and of the job body.                               *)
(*                                                                         *)
(* A call of the control thread is one step where the steps of the work    *)
(* queue threads commute with its parts: only the control thread submits   *)
(* work, so a work item can only turn from pending to not pending between  *)
(* two statements of a call, and start, kill and status write nothing the  *)
(* handler of a pending item reads on its way out.  th_ctrl_result_print   *)
(* is cut in two, at its read of k_work_is_pending: the job body writes    *)
(* the buffer the call has just printed.                                   *)
(*                                                                         *)
(* Memory is an explicit heap of HeapSize blocks, so that a leak, a double *)
(* free or a use of a freed block is a fact about the state.  Addresses    *)
(* carry no meaning to the program, so after each call that allocates or   *)
(* frees the blocks are renumbered in the order the slots reach them       *)
(* (Normalize): two states that differ only in addresses are one state.    *)
(***************************************************************************)
EXTENDS Integers, Sequences, FiniteSets, TLC

\* ---------------------------------------------------------------- bounds
\* number of heap blocks; malloc returns NULL when none is free
HeapSize == 6
\* number of output chunks the job body writes at most into a result buffer
MaxOut == 1

\* ------------------------------------------------------------- constants
NULL == 0
Slots == {1, 2}
\* the arguments a shell command line hands to th_ctrl_start: argv[0] is the
\* sub-command, argv[1] the job kind, the rest the job's own arguments
\* (TLA+ sequences count from 1: C's argv[k] is argv[k+1] here)
ArgLists ==
    { <<"start", "iperf3">>, <<"start", "ping">> }

VARIABLES
    work,       \* work[s]: the k_work flags of th_work_data_s.work
    hpc,        \* hpc[s]: where th_ctrl_work_handler of slot s stands
    jb,         \* jb[s]: the arguments iperf_main of slot s was called with
    data,       \* data[s]: the fields of th_work_data_s
    sig,        \* sig[s]: th_work_data_s.kill_signal
    heap,       \* the C heap
    err,        \* failed assertions and memory errors seen so far
    pc,         \* where the control thread stands
    cur,        \* the slot the control thread's current call works on
    out         \* what the control thread printed in the last step

vars == <<work, hpc, jb, data, sig, heap, err, pc, cur, out>>

\* ------------------------------------------------------------------ heap
FreeBlk == [k |-> "free", len |-> 0, elems |-> <<>>, val |-> ""]
\* calloc(TH_RESPONSE_BUFFER_SIZE, 1): an empty string of len chunks
BufBlk == [k |-> "buf", len |-> 0, elems |-> <<>>, val |-> ""]
\* malloc(sizeof(char *) * argc): the pointer array, filled element by element
VecBlk == [k |-> "vec", len |-> 0, elems |-> <<>>, val |-> ""]
\* mosh_strdup(s)
StrBlk(s) == [k |-> "str", len |-> 0, elems |-> <<>>, val |-> s]

FreeIds(h) == {p \in 1..HeapSize : h[p].k = "free"}
MinOf(S) == CHOOSE x \in S : \A y \in S : x <= y

\* A memory state m is [heap, err]; the allocators return [m, p].
\* malloc/calloc/strdup: NULL when the allocator fails (ok = FALSE is the
\* environment refusing the request) or no block is free.
malloc(m, blk, ok) ==
    IF ok /\ FreeIds(m.heap) # {}
    THEN LET p == MinOf(FreeIds(m.heap))
         IN [m |-> [m EXCEPT !.heap[p] = blk], p |-> p]
    ELSE [m |-> m, p |-> NULL]

\* the elements of the pointer array at p
Elems(h, p) == IF p # NULL /\ h[p].k = "vec" THEN h[p].elems ELSE <<>>
InSeq(x, seq) == \E i \in 1..Len(seq) : seq[i] = x

\* block p is memory that an iperf_main call in progress was handed
InUse(h, p) ==
    \E s \in Slots :
        /\ hpc[s] = "body"
        /\ p = jb[s].buf \/ p = jb[s].argv \/ InSeq(p, Elems(h, jb[s].argv))

\* free(p): free(NULL) does nothing; freeing a block that is not allocated
\* is undefined and recorded, and so is freeing what a running job uses
free(m, p) ==
    IF p = NULL THEN m
    ELSE IF m.heap[p].k = "free" THEN [m EXCEPT !.err = @ \cup {"double_free"}]
    ELSE [m EXCEPT !.heap[p] = FreeBlk,
                   !.err = IF InUse(m.heap, p) THEN @ \cup {"use_after_free"}
                           ELSE @]

\* (a restart that leaves the old text in the buffer)
memset0_skipped(m, p) == m
\* memset(p, 0, TH_RESPONSE_BUFFER_SIZE)
memset0(m, p) ==
    IF m.heap[p].k # "buf" THEN [m EXCEPT !.err = @ \cup {"use_after_free"}]
    ELSE [m EXCEPT !.heap[p].len = 0]

\* strlen(p) of a result buffer
strlen(h, p) == h[p].len

\* ----------------------------------------------- argument vector (65-95)
RECURSIVE dup_loop(_, _, _, _, _)
dup_loop(m, vec, args, i, failAt) ==
    IF i > Len(args) THEN [m |-> m, p |-> vec]
    ELSE LET r == malloc(m, StrBlk(args[i]), failAt # i)
         IN IF r.p = NULL
            THEN [m |-> free(r.m, vec), p |-> NULL]
            ELSE dup_loop([r.m EXCEPT !.heap[vec].elems = Append(@, r.p)],
                          vec, args, i + 1, failAt)

\* failAt = 0: the pointer array cannot be allocated; failAt = i in
\* 1..Len(args): the copy of element i cannot; otherwise only a full heap fails
th_ctrl_util_duplicate_argv(m, args, failAt) ==
    LET r == malloc(m, VecBlk, failAt # 0)
    IN IF r.p = NULL THEN [m |-> r.m, p |-> NULL]
       ELSE dup_loop(r.m, r.p, args, 1, failAt)

RECURSIVE free_loop(_, _, _, _)
free_loop(m, elems, i, argc) ==
    IF i >= argc THEN m
    ELSE free_loop(free(m, elems[i + 1]), elems, i + 1, argc)

\* for (i = 1; i < argc; i++) free(argv[i]); free(argv);
th_ctrl_util_duplicate_argv_free(m, argc, argvp) ==
    IF argvp = NULL
    THEN IF argc > 1 THEN [m EXCEPT !.err = @ \cup {"null_deref"}] ELSE m
    ELSE IF m.heap[argvp].k # "vec" \/ Len(m.heap[argvp].elems) < argc
    THEN [m EXCEPT !.err = @ \cup {"use_after_free"}]
    ELSE free(free_loop(m, m.heap[argvp].elems, 1, argc), argvp)

\* ------------------------------------------------------- kernel objects
\* k_work_init: no flag set
WorkIdle == [queued |-> FALSE, running |-> FALSE]
\* (a test that forgets the item whose handler is running)
k_work_is_pending_queued_only(s) == work[s].queued
\* k_work_is_pending(&data->work): k_work_busy_get() != 0, the item is
\* queued or its handler is running
k_work_is_pending(s) == work[s].queued \/ work[s].running
\* k_poll_signal_init
SigInit == [signaled |-> 0, result |-> 0]
\* k_poll_signal_raise(&kill_signal, v)
k_poll_signal_raise(v) == [signaled |-> 1, result |-> v]
\* k_poll_signal_reset(&kill_signal): the result value stays
k_poll_signal_reset(g) == [g EXCEPT !.signaled = 0]

\* shell->ctx->cmd_buff_len: the length of the command line typed, "th "
\* followed by the arguments separated by single spaces
RECURSIVE SumLen(_)
SumLen(args) == IF args = <<>> THEN 0 ELSE Len(Head(args)) + 1 + SumLen(Tail(args))
cmd_buff_len(argv) == 2 + SumLen(argv)

\* the zero-initialised static struct th_ctrl_data
DataInit ==
    [results_str |-> NULL, argv |-> NULL, argc |-> 0, cmd_len |-> 0,
     background |-> FALSE]
\* the arguments of the running iperf_main call, and its return value
JbNone == [argc |-> 0, argv |-> NULL, buf |-> NULL, ret |-> "none"]
\* The last call of the control thread and what it printed: the call, the
\* job kind asked for (start), the slot it is about, the message, the length
\* of the result text printed (result) or the signalled flag the call found
\* (kill), and the status lines printed (status).  A step of a work queue
\* thread leaves OutNone.
OutNone ==
    [op |-> "none", kind |-> "", slot |-> 0, res |-> "none", len |-> 0,
     st |-> <<>>]
Report(op, s, res, n) ==
    [op |-> op, kind |-> "", slot |-> s, res |-> res, len |-> n, st |-> <<>>]

\* th_ctrl_init
Init ==
    /\ work = [s \in Slots |-> WorkIdle]
    /\ hpc = [s \in Slots |-> "none"]
    /\ jb = [s \in Slots |-> JbNone]
    /\ data = [s \in Slots |-> DataInit]
    /\ sig = [s \in Slots |-> SigInit]
    /\ heap = [p \in 1..HeapSize |-> FreeBlk]
    /\ err = {}
    /\ pc = "idle"
    /\ cur = 0
    /\ out = OutNone

\* ------------------------------------------------- address renumbering
\* the addresses the slots and the running jobs hold, in a fixed order
RootSeq(h, d, j) ==
    LET one(s) == <<d[s].results_str, d[s].argv>> \o Elems(h, d[s].argv)
                  \o <<j[s].buf, j[s].argv>> \o Elems(h, j[s].argv)
    IN  one(1) \o one(2)
RECURSIVE Dedup(_, _)
Dedup(seq, acc) ==
    IF seq = <<>> THEN acc
    ELSE Dedup(Tail(seq),
               IF Head(seq) = NULL \/ InSeq(Head(seq), acc) THEN acc
               ELSE Append(acc, Head(seq)))
IndexOf(x, seq) == CHOOSE i \in 1..Len(seq) : seq[i] = x
\* allocated blocks no pointer leads to, by kind: these are leaked
Leaked(h, order, kind) ==
    Cardinality({p \in 1..HeapSize : h[p].k = kind /\ ~InSeq(p, order)})
\* The same memory with the blocks renumbered: the blocks the slots reach
\* come first, in the order they are reached, then the leaked blocks (their
\* contents can no longer be read), then the free ones.
NormalizeBy(h, d, j, order) ==
    LET n == Len(order)
        nb == Leaked(h, order, "buf")
        ns == Leaked(h, order, "str")
        nv == Leaked(h, order, "vec")
        ren(p) == IF p = NULL THEN NULL ELSE IndexOf(p, order)
        renBlk(b) == [b EXCEPT !.elems = [i \in 1..Len(@) |-> ren(@[i])]]
    IN  [heap |-> [p \in 1..HeapSize |->
                    IF p <= n THEN renBlk(h[order[p]])
                    ELSE IF p <= n + nb THEN BufBlk
                    ELSE IF p <= n + nb + ns THEN StrBlk("")
                    ELSE IF p <= n + nb + ns + nv THEN VecBlk
                    ELSE FreeBlk],
         data |-> [s \in Slots |->
                    [d[s] EXCEPT !.results_str = ren(@), !.argv = ren(@)]],
         jb |-> [s \in Slots |-> [j[s] EXCEPT !.buf = ren(@), !.argv = ren(@)]]]
Normalize(h, d, j) ==
    CHOOSE x \in {NormalizeBy(h, d, j, order) :
                    order \in {Dedup(RootSeq(h, d, j), <<>>)}} : TRUE

\* ---------------------------------------------- th_ctrl_data_start (225)
\* (a start that never flushes the result buffer)
flush_never(d, bg) == FALSE
\* !is_background && data->results_str != NULL
flush_needed(d, bg) == ~bg /\ d.results_str # NULL
\* The body of th_ctrl_data_start on the slot fields d under memory m.
\* pending: what k_work_is_pending reads at the entry assert; bufOk, failAt:
\* whether calloc and th_ctrl_util_duplicate_argv get their memory.
\* Returns the memory, the slot fields, whether the work item is submitted
\* and the message printed.
th_ctrl_data_start(m0, d0, pending, argv, bg, bufOk, failAt) ==
    LET m1 == IF pending THEN [m0 EXCEPT !.err = @ \cup {"assert_not_pending"}]
              ELSE m0
        flush == flush_needed(d0, bg)
        m2 == IF flush THEN free(m1, d0.results_str) ELSE m1
        d2 == IF flush THEN [d0 EXCEPT !.results_str = NULL] ELSE d0
        alloc == bg /\ d2.results_str = NULL
        a == malloc(m2, BufBlk, bufOk)
        m3 == IF alloc THEN a.m
              ELSE IF d2.results_str # NULL THEN memset0(m2, d2.results_str)
              ELSE m2
        d3 == IF alloc THEN [d2 EXCEPT !.results_str = a.p] ELSE d2
    IN  IF alloc /\ a.p = NULL
        THEN [m |-> m3, d |-> d3, submit |-> FALSE, res |-> "OutOfMemory"]
        ELSE
        LET m4 == IF Len(argv) > 1 THEN m3
                  ELSE [m3 EXCEPT !.err = @ \cup {"assert_argc"}]
            m5 == IF d3.argv # NULL
                  THEN th_ctrl_util_duplicate_argv_free(m4, d3.argc, d3.argv)
                  ELSE m4
            r == th_ctrl_util_duplicate_argv(m5, Tail(argv), failAt)
            d5 == [d3 EXCEPT !.argc = Len(argv) - 1, !.argv = r.p]
        IN  IF r.p = NULL
            THEN [m |-> r.m, d |-> d5, submit |-> FALSE, res |-> "OutOfMemory"]
            ELSE [m |-> r.m,
                  d |-> [d5 EXCEPT !.background = bg,
                                   !.cmd_len = cmd_buff_len(argv)],
                  submit |-> TRUE, res |-> "Started"]

\* k_work_submit_to_queue(&th_work_q_s, &data->work): the item is marked
\* queued (also when its handler is running: it then runs once more)
k_work_submit(w) == [w EXCEPT !.queued = TRUE]

\* ------------------------------------------------ th_ctrl_start (278-299)
\* The call th_ctrl_data_start(&th_work_data_s, shell, argc, argv, bg); the
\* entry assert reads the flags of the work item. The record of the call
\* keeps the length of the text the slot held unread when the call came.
DataStart(s, argv, bg) ==
    \E bufOk \in BOOLEAN :
    \E failAt \in (IF bufOk THEN 0..Len(argv) ELSE {Len(argv)}) :
        \E r \in {th_ctrl_data_start([heap |-> heap, err |-> err], data[s],
                                    k_work_is_pending(s), argv, bg, bufOk, failAt)} :
        \E nm \in {Normalize(r.m.heap, [data EXCEPT ![s] = r.d], jb)} :
            /\ heap' = nm.heap
            /\ err' = r.m.err
            /\ data' = nm.data
            /\ jb' = nm.jb
            /\ work' = IF r.submit THEN [work EXCEPT ![s] = k_work_submit(@)]
                       ELSE work
            /\ out' = [Report("start", s, r.res,
                              IF data[s].results_str = NULL THEN 0
                              ELSE strlen(heap, data[s].results_str))
                          EXCEPT !.kind = argv[2]]
            /\ UNCHANGED <<hpc, sig, pc, cur>>

\* (a test that accepts every job kind)
SupportedAlways(argv) == TRUE
\* strcmp(argv[1], "iperf3") == 0
Supported(argv) == argv[2] = "iperf3"
\* (the test of slot 1 reading the other slot's item; the test inverted)
Slot1FreeWrongSlot == ~k_work_is_pending(2)
Slot1FreeInverted == k_work_is_pending(1)
\* !k_work_is_pending(&(th_work_data_1.work))
Slot1Free == ~k_work_is_pending(1)
\* (the second test left out)
Slot2FreeAlways == TRUE
\* !k_work_is_pending(&(th_work_data_2.work))
Slot2Free == ~k_work_is_pending(2)

th_ctrl_start(argv, bg) ==
    /\ pc = "idle"
    /\ IF ~Supported(argv)
       THEN /\ out' = [Report("start", 0, "UnsupportedCommand", 0)
                        EXCEPT !.kind = argv[2]]
            /\ UNCHANGED <<work, hpc, jb, data, sig, heap, err, pc, cur>>
       ELSE IF Slot1Free
       THEN DataStart(1, argv, bg)
       ELSE IF Slot2Free
       THEN DataStart(2, argv, bg)
       ELSE /\ out' = [Report("start", 0, "AllSlotsBusy", 0)
                        EXCEPT !.kind = argv[2]]
            /\ UNCHANGED <<work, hpc, jb, data, sig, heap, err, pc, cur>>

\* --------------------------------- th_ctrl_data_status_print (48-63, 132-154)
\* (a loop that stops after the first argument)
cmd_loop_first_only(args, i, buf, out_buf_len) ==
    IF i > 1 \/ i > Len(args) THEN buf ELSE buf \o args[i] \o " "
RECURSIVE cmd_loop(_, _, _, _)
cmd_loop(args, i, buf, out_buf_len) ==
    IF i > Len(args) THEN buf
    ELSE IF Len(buf) + Len(args[i]) > out_buf_len THEN buf
    ELSE cmd_loop(args, i + 1, buf \o args[i] \o " ", out_buf_len)
\* each argument followed by a space, until one would not fit
th_ctrl_get_command_str_from_argv(args, out_buf_len) ==
    cmd_loop(args, 1, "", out_buf_len)

\* the strings data->argv[0 .. argc-1] point to
ArgvStrings(h, d) ==
    [i \in 1..(IF d.argv = NULL THEN 0 ELSE Len(Elems(h, d.argv))) |->
        h[h[d.argv].elems[i]].val]

\* what th_ctrl_data_status_print prints for slot s
th_ctrl_data_status_print(s) ==
    IF data[s].results_str # NULL /\ strlen(heap, data[s].results_str) # 0
    THEN [avail |-> TRUE, running |-> k_work_is_pending(s),
          cmd |-> th_ctrl_get_command_str_from_argv(
                      ArgvStrings(heap, data[s]), data[s].cmd_len + 1)]
    ELSE [avail |-> FALSE, running |-> FALSE, cmd |-> ""]

\* th_ctrl_status_print: the status of slot 1, then of slot 2
th_ctrl_status_print ==
    /\ pc = "idle"
    /\ out' = [Report("status", 0, "none", 0) EXCEPT
                  !.st = <<th_ctrl_data_status_print(1),
                           th_ctrl_data_status_print(2)>>]
    /\ UNCHANGED <<work, hpc, jb, data, sig, heap, err, pc, cur>>

\* ------------------------------------------------- th_ctrl_kill (172-187)
\* (a value that depends on the raises made before)
KillValueChanging(s) == IF sig[s].signaled = 1 THEN 0 ELSE s
\* the value th_ctrl_kill and th_ctrl_kill_em_all raise for slot s
KillValue(s) == s
\* (a kill that does not test the item)
KillPendingAlways(s) == TRUE
\* k_work_is_pending(&(th_work_data_n.work)) in th_ctrl_kill
KillPending(s) == k_work_is_pending(s)

\* (a kill that always raises the signal of slot 1)
kill_signal_of_first(nbr) == 1
\* &(th_work_data_nbr.kill_signal): the signal th_ctrl_kill(nbr) raises
kill_signal_of(nbr) == nbr
\* nbr is 1 or 2, or a number that names no slot (0 stands for those)
th_ctrl_kill(nbr) ==
    /\ pc = "idle"
    /\ IF nbr \notin Slots
       THEN out' = Report("kill", nbr, "none", 0) /\ sig' = sig
       ELSE IF KillPending(nbr)
       THEN /\ sig' = [sig EXCEPT ![kill_signal_of(nbr)] =
                                      k_poll_signal_raise(KillValue(nbr))]
            /\ out' = Report("kill", nbr, "Raised", sig[nbr].signaled)
       ELSE /\ out' = Report("kill", nbr, "NotRunning", 0)
            /\ sig' = sig
    /\ UNCHANGED <<work, hpc, jb, data, heap, err, pc, cur>>

\* ------------------------------------------ th_ctrl_kill_em_all (162-170)
\* (a broadcast that raises without testing the item)
kill_always(s) == k_poll_signal_raise(KillValue(s))
\* the kill signal of slot s after th_ctrl_kill_em_all
kill_if_pending(s) ==
    IF k_work_is_pending(s) THEN k_poll_signal_raise(KillValue(s)) ELSE sig[s]

th_ctrl_kill_em_all ==
    /\ pc = "idle"
    /\ sig' = [s \in Slots |-> kill_if_pending(s)]
    /\ out' = Report("kill_all", 0, "none", 0)
    /\ UNCHANGED <<work, hpc, jb, data, heap, err, pc, cur>>

\* ----------------------------------- th_ctrl_data_result_print (189-214)
\* a read of the result buffer by the control thread
ReadErr(p) == IF heap[p].k # "buf" THEN {"use_after_free"} ELSE {}

\* th_ctrl_result_print(nbr) up to the printing of the buffer (189-198);
\* nbr is 1 or 2, or a number that names no slot (0 stands for those)
th_ctrl_result_print(nbr) ==
    /\ pc = "idle"
    /\ IF nbr \notin Slots
       THEN /\ out' = Report("result", nbr, "none", 0)
            /\ UNCHANGED <<pc, cur, err>>
       ELSE IF data[nbr].results_str = NULL
       THEN /\ out' = Report("result", nbr, "NoResults", 0)
            /\ UNCHANGED <<pc, cur, err>>
       ELSE IF strlen(heap, data[nbr].results_str) = 0
       THEN /\ out' = Report("result", nbr, "NoResults", 0)
            /\ err' = err \cup ReadErr(data[nbr].results_str)
            /\ UNCHANGED <<pc, cur>>
       ELSE /\ out' = Report("result", nbr, "Results",
                             strlen(heap, data[nbr].results_str))
            /\ err' = err \cup ReadErr(data[nbr].results_str)
            /\ pc' = "res_free" /\ cur' = nbr
    /\ UNCHANGED <<work, hpc, jb, data, sig, heap>>

\* the slot fields and memory after lines 202-211
result_delete(m, d) ==
    LET m1 == free(m, d.results_str)
        m2 == th_ctrl_util_duplicate_argv_free(m1, d.argc, d.argv)
    IN  [m |-> m2, d |-> [d EXCEPT !.results_str = NULL, !.argc = 0, !.argv = NULL]]

\* (a delete that does not wait for the work to be done)
WorkDoneAlways(s) == TRUE
\* !k_work_is_pending(&(data->work)) in th_ctrl_data_result_print
WorkDone(s) == ~k_work_is_pending(s)

\* the rest of the call: if (!k_work_is_pending(&(data->work))) { delete }
ResultFree ==
    /\ pc = "res_free"
    /\ IF WorkDone(cur)
       THEN \E r \in {result_delete([heap |-> heap, err |-> err], data[cur])} :
            \E nm \in {Normalize(r.m.heap, [data EXCEPT ![cur] = r.d], jb)} :
                /\ heap' = nm.heap
                /\ err' = r.m.err
                /\ data' = nm.data
                /\ jb' = nm.jb
                /\ out' = Report("result", cur, "ResultsDeleted", 0)
       ELSE /\ out' = OutNone
            /\ UNCHANGED <<heap, err, data, jb>>
    /\ pc' = "idle" /\ cur' = 0
    /\ UNCHANGED <<work, hpc, sig>>

\* ----------------------------------------- th_ctrl_work_handler (97-130)
\* the asserts of lines 105-113
HandlerAsserts(d) ==
    (IF d.argv = NULL THEN {"assert_argv"} ELSE {})
    \cup (IF d.background /\ d.results_str = NULL THEN {"assert_bg_results"} ELSE {})
    \cup (IF ~d.background /\ d.results_str # NULL THEN {"assert_fg_results"} ELSE {})

\* The work queue thread of slot s takes the item off its queue (the item is
\* marked running and no longer queued) and calls the handler, which checks
\* its asserts and calls iperf_main with the slot's fields.
HandlerEntry(s) ==
    /\ work[s].queued /\ hpc[s] = "none"
    /\ work' = [work EXCEPT ![s] = [queued |-> FALSE, running |-> TRUE]]
    /\ err' = err \cup HandlerAsserts(data[s])
    /\ jb' = [jb EXCEPT ![s] =
                [argc |-> data[s].argc, argv |-> data[s].argv,
                 buf |-> IF data[s].background THEN data[s].results_str ELSE NULL,
                 ret |-> "none"]]
    /\ hpc' = [hpc EXCEPT ![s] = "body"]
    /\ out' = OutNone
    /\ UNCHANGED <<data, sig, heap, pc, cur>>

\* the memory iperf_main was handed is still allocated
ArgvLive(h, j) ==
    /\ j.argv # NULL
    /\ h[j.argv].k = "vec"
    /\ Len(h[j.argv].elems) = j.argc
    /\ \A i \in 1..j.argc : h[h[j.argv].elems[i]].k = "str"
BufLive(h, j) == j.buf # NULL => h[j.buf].k = "buf"
BodyErr(s) ==
    IF ArgvLive(heap, jb[s]) /\ BufLive(heap, jb[s]) THEN {}
    ELSE {"use_after_free"}

\* iperf_main writes a chunk of output into the result buffer
JobWrite(s) ==
    /\ hpc[s] = "body"
    /\ jb[s].buf # NULL
    /\ err' = err \cup BodyErr(s)
    /\ IF heap[jb[s].buf].k = "buf"
       THEN /\ heap[jb[s].buf].len < MaxOut
            /\ heap' = [heap EXCEPT ![jb[s].buf].len = @ + 1]
       ELSE UNCHANGED heap
    /\ out' = OutNone
    /\ UNCHANGED <<work, hpc, jb, data, sig, pc, cur>>

\* iperf_main returns at the end of its run
JobReturn(s) ==
    /\ hpc[s] = "body"
    /\ err' = err \cup BodyErr(s)
    /\ jb' = [jb EXCEPT ![s] = [JbNone EXCEPT !.ret = "done"]]
    /\ hpc' = [hpc EXCEPT ![s] = "post"]
    /\ out' = OutNone
    /\ UNCHANGED <<work, data, sig, heap, pc, cur>>

\* iperf_main polls the kill signal it was handed, finds it raised and
\* returns early.  Its code is not part of this file: it may or may not
\* reset the signal it has seen.
JobKilled(s) ==
    /\ hpc[s] = "body"
    /\ sig[s].signaled = 1
    /\ \E reset \in BOOLEAN :
        sig' = IF reset THEN [sig EXCEPT ![s] = k_poll_signal_reset(@)] ELSE sig
    /\ err' = err \cup BodyErr(s)
    /\ jb' = [jb EXCEPT ![s] = [JbNone EXCEPT !.ret = "killed"]]
    /\ hpc' = [hpc EXCEPT ![s] = "post"]
    /\ out' = OutNone
    /\ UNCHANGED <<work, data, heap, pc, cur>>

\* the prints of lines 118-129, then the handler returns and the work
\* queue clears the running flag
HandlerReturn(s) ==
    /\ hpc[s] = "post"
    /\ hpc' = [hpc EXCEPT ![s] = "none"]
    /\ jb' = [jb EXCEPT ![s] = JbNone]
    /\ work' = [work EXCEPT ![s].running = FALSE]
    /\ out' = OutNone
    /\ UNCHANGED <<data, sig, heap, err, pc, cur>>

\* ------------------------------------------------------------------ spec
Next ==
    \/ \E a \in ArgLists, bg \in BOOLEAN : th_ctrl_start(a, bg)
    \/ \E n \in Slots \cup {0} : th_ctrl_kill(n)
    \/ th_ctrl_kill_em_all
    \/ \E n \in Slots \cup {0} : th_ctrl_result_print(n)
    \/ ResultFree
    \/ th_ctrl_status_print
    \/ \E s \in Slots : HandlerEntry(s)
    \/ \E s \in Slots : JobWrite(s)
    \/ \E s \in Slots : JobReturn(s)
    \/ \E s \in Slots : JobKilled(s)
    \/ \E s \in Slots : HandlerReturn(s)

Spec == Init /\ [][Next]_vars

\* ------------------------------- the argument vector routines on their own
\* th_ctrl_util_duplicate_argv, th_ctrl_util_duplicate_argv_free and
\* th_ctrl_get_command_str_from_argv applied to the argument vector of slot
\* 1, in the order th_ctrl_data_start, th_ctrl_data_status_print and
\* th_ctrl_data_result_print call them, for argument lists of up to MaxArgs
\* words. No work item is submitted; memory is not renumbered.
MaxArgs == 3
ArgWords == {"-c", "-u"}
\* &argv[1] of a start request: the job kind followed by its options
ArgvInputs ==
    { <<"iperf3">> \o t : t \in UNION { [1..n -> ArgWords] : n \in 0..(MaxArgs - 1) } }

\* lines 253-258 and 268 with data->argv == NULL: the duplicate is stored in
\* the slot with its length and the length of the command line
ArgvDuplicate(args, failAt) ==
    /\ data[1].argv = NULL
    /\ \E r \in {th_ctrl_util_duplicate_argv([heap |-> heap, err |-> err],
                                            args, failAt)} :
        /\ heap' = r.m.heap
        /\ err' = r.m.err
        /\ data' = [data EXCEPT ![1].argc = Len(args),
                                ![1].argv = r.p,
                                ![1].cmd_len = IF r.p = NULL THEN @
                                               ELSE cmd_buff_len(<<"start">> \o args)]
        /\ out' = [Report("duplicate_argv", 1,
                          IF r.p = NULL THEN "NULL" ELSE "array", failAt)
                       EXCEPT !.st = args]
    /\ UNCHANGED <<work, hpc, jb, sig, pc, cur>>

\* lines 208-211: the argument vector of the slot is released
ArgvFree ==
    /\ data[1].argv # NULL
    /\ \E m \in {th_ctrl_util_duplicate_argv_free([heap |-> heap, err |-> err],
                                                 data[1].argc, data[1].argv)} :
        /\ heap' = m.heap
        /\ err' = m.err
    /\ data' = [data EXCEPT ![1].argc = 0, ![1].argv = NULL]
    /\ out' = Report("duplicate_argv_free", 1, "none", data[1].argc)
    /\ UNCHANGED <<work, hpc, jb, sig, pc, cur>>

\* lines 145-150: the command line of the slot is rebuilt for printing
ArgvCommandStr ==
    /\ data[1].argv # NULL
    /\ out' = [Report("command_str", 1, "none", data[1].cmd_len + 1) EXCEPT
                  !.kind = th_ctrl_get_command_str_from_argv(
                               ArgvStrings(heap, data[1]), data[1].cmd_len + 1)]
    /\ UNCHANGED <<work, hpc, jb, data, sig, heap, err, pc, cur>>

NextArgv ==
    \/ \E args \in ArgvInputs : \E failAt \in 0..(Len(args) + 1) :
            ArgvDuplicate(args, failAt)
    \/ ArgvFree
    \/ ArgvCommandStr

SpecArgv == Init /\ [][NextArgv]_vars
\* ================================================================ claims
\* A slot is Running when its work item is pending, Idle otherwise.
is_running(s) == k_work_is_pending(s)
\* the memory and the fields of both slots
SlotsUnchanged ==
    /\ data' = data /\ sig' = sig /\ work' = work /\ heap' = heap
\* everything but the record of the last call
AllButOutUnchanged ==
    SlotsUnchanged /\ UNCHANGED <<hpc, jb, err, pc, cur>>
\* the last successful start on slot s was a background start whose job has
\* returned and whose results nobody has consumed
FinishedBg(s) ==
    /\ ~is_running(s)
    /\ data[s].background
    /\ data[s].results_str # NULL
    /\ data[s].argv # NULL
\* what slot s holds, by content (addresses are renumbered between states)
ResultsOf(h, d) == IF d.results_str = NULL THEN <<>> ELSE <<h[d.results_str].k>>
ArgvOf(h, d) ==
    IF d.argv = NULL THEN <<"absent">>
    ELSE <<h[d.argv].k>> \o [i \in 1..Len(Elems(h, d.argv)) |->
                               h[h[d.argv].elems[i]]]

\* C1: each slot has at most one active execution: the assert at the entry
\* of th_ctrl_data_start never fails, and the work item of a slot is never
\* submitted again while it is queued or its handler runs, so no second
\* instance of the job body of a slot exists beside the running one.
C1_OneExecutionPerSlot ==
    /\ "assert_not_pending" \notin err
    /\ \A s \in Slots :
        /\ ~(work[s].queued /\ work[s].running)
        /\ hpc[s] # "none" <=> work[s].running
C1_Witness ==
    /\ out.op = "start" /\ out.slot = 1 /\ out.res = "Started"
    /\ work[1].queued
    /\ sig[1].signaled = 1
    /\ hpc[2] = "body"

\* C2: admission is order-fixed.  A start request with the supported job
\* kind that finds slot 1 Idle is served by slot 1 and never touches slot 2:
\* the job it starts is on slot 1 (it starts none there only when memory
\* runs out).  A request is served by slot 2, and a job is started on slot
\* 2, only when slot 1 is Running and slot 2 is Idle.
C2_Step ==
    /\ (out'.op = "start" /\ out'.kind = "iperf3")
        => /\ ~is_running(1)
                => /\ out'.slot = 1
                   /\ out'.res \in {"Started", "OutOfMemory"}
                   /\ out'.res = "Started" <=> work'[1].queued
                   /\ work'[2] = work[2] /\ sig' = sig
                   /\ ResultsOf(heap', data'[2]) = ResultsOf(heap, data[2])
                   /\ ArgvOf(heap', data'[2]) = ArgvOf(heap, data[2])
           /\ out'.slot = 2 => is_running(1) /\ ~is_running(2)
    /\ \A s \in Slots :
        (~work[s].queued /\ work'[s].queued)
            => /\ out'.op = "start" /\ out'.slot = s /\ out'.res = "Started"
               /\ s = 2 => is_running(1) /\ ~is_running(2)
C2_OrderFixedAdmission == [][C2_Step]_vars
C2_Witness ==
    /\ out.op = "start" /\ out.slot = 2 /\ out.res = "Started"
    /\ work[2].queued
    /\ is_running(1)

\* C3 as stated: every start request issued while both slots are Running is
\* rejected with AllSlotsBusy and changes no field of either slot.
C3_AnyStartWhileBothRunning ==
    [][(out'.op = "start" /\ is_running(1) /\ is_running(2))
        => out'.res = "AllSlotsBusy" /\ SlotsUnchanged]_vars
\* C3: a start request with the supported job kind issued while both slots
\* are Running is rejected with AllSlotsBusy and changes no field of either
\* slot and no memory; a start request with the supported job kind is
\* rejected with AllSlotsBusy exactly when both slots are Running.  (A
\* request with another job kind is rejected with UnsupportedCommand before
\* the slots are looked at.)
C3_Step ==
    (out'.op = "start" /\ out'.kind = "iperf3")
        => /\ out'.res = "AllSlotsBusy" <=> (is_running(1) /\ is_running(2))
           /\ (is_running(1) /\ is_running(2))
                => out'.slot = 0 /\ AllButOutUnchanged
C3_AllSlotsBusy == [][C3_Step]_vars
C3_Witness ==
    /\ out.op = "start" /\ out.res = "AllSlotsBusy"
    /\ hpc[1] = "body" /\ work[2].queued

\* C4: a start request whose job kind is not "iperf3" is rejected with
\* UnsupportedCommand, allocates nothing and changes nothing of either slot,
\* whatever state the slots are in.
C4_Step ==
    (out'.op = "start" /\ out'.kind # "iperf3")
        => /\ out'.res = "UnsupportedCommand" /\ out'.slot = 0
           /\ AllButOutUnchanged
C4_UnsupportedCommand == [][C4_Step]_vars
C4_Witness ==
    /\ out.op = "start" /\ out.res = "UnsupportedCommand" /\ out.kind = "ping"
    /\ hpc[1] = "body" /\ ~is_running(2)
    /\ data[2].results_str # NULL

\* C5: after a successful start the slot is Running until the job body of
\* that start has returned: a successful start leaves the slot Running, the
\* slot is Running in every state where its job is queued or its job body
\* executes, and it becomes Idle only from a state where the job body has
\* returned and no job is queued.
C5_Step ==
    \A s \in Slots :
        /\ (out'.op = "start" /\ out'.slot = s /\ out'.res = "Started")
            => is_running(s)' /\ work'[s].queued
        /\ (work'[s].queued \/ hpc'[s] = "body") => is_running(s)'
        /\ (is_running(s) /\ ~is_running(s)')
            => hpc[s] = "post" /\ ~work[s].queued
C5_RunningUntilBodyReturns == [][C5_Step]_vars
C5_Witness ==
    \E s \in Slots :
        /\ hpc[s] = "post"
        /\ is_running(s)
        /\ data[s].argv # NULL

\* C6: the result buffer and the argument vector of a slot are never freed
\* or replaced while the slot is Running.  In every step taken while slot s
\* is Running the slot keeps its buffer (the text in it only grows) and its
\* argument vector; a result request against the slot prints the text read
\* so far, and the rest of the call deletes nothing; the memory a job body
\* was handed is allocated for as long as the body executes, so no step
\* uses freed memory.
C6_Step ==
    /\ \A s \in Slots :
        is_running(s)
            => /\ (data'[s].results_str = NULL) <=> (data[s].results_str = NULL)
               /\ data[s].results_str # NULL
                    => /\ heap'[data'[s].results_str].k = "buf"
                       /\ strlen(heap', data'[s].results_str)
                            >= strlen(heap, data[s].results_str)
               /\ ArgvOf(heap', data'[s]) = ArgvOf(heap, data[s])
               /\ data'[s].argc = data[s].argc
               /\ (/\ pc = "idle" /\ out'.op = "result" /\ out'.slot = s
                   /\ data[s].results_str # NULL)
                    => /\ out'.len = strlen(heap, data[s].results_str)
                       /\ out'.res = IF out'.len > 0 THEN "Results"
                                     ELSE "NoResults"
               /\ (pc = "res_free" /\ cur = s /\ pc' = "idle")
                    => out' = OutNone /\ heap' = heap /\ data' = data
    /\ \A s \in Slots :
        hpc'[s] = "body" => ArgvLive(heap', jb'[s]) /\ BufLive(heap', jb'[s])
    /\ "use_after_free" \notin err'
C6_NoFreeWhileRunning == [][C6_Step]_vars
C6_Witness ==
    /\ pc = "res_free" /\ cur = 1
    /\ out.op = "result" /\ out.slot = 1 /\ out.res = "Results"
    /\ hpc[1] = "body"
    /\ data[1].results_str # NULL /\ data[1].argv # NULL

\* C7 as stated: a result request on a slot whose background job has
\* finished goes on to delete the slot's results: it frees the result
\* buffer, the slot's results become absent and its argument vector is
\* cleared; a result request on the same slot right after the delete
\* reports that there are no results.
C7_Step ==
    \A n \in Slots :
        /\ (pc = "idle" /\ out'.op = "result" /\ out'.slot = n /\ FinishedBg(n))
            => pc' = "res_free" /\ cur' = n
        /\ (pc = "res_free" /\ cur = n /\ pc' = "idle" /\ FinishedBg(n))
            => /\ out'.res = "ResultsDeleted"
               /\ data'[n].results_str = NULL
               /\ data'[n].argv = NULL /\ data'[n].argc = 0
        /\ (/\ out.op = "result" /\ out.slot = n /\ out.res = "ResultsDeleted"
            /\ out'.op = "result" /\ out'.slot = n)
            => out'.res = "NoResults"
C7_ReportFreesFinishedBg == [][C7_Step]_vars

\* C8: a kill addressed to a slot that is Idle reports NotRunning and
\* changes nothing: the kill signal of the slot is not raised, and no field
\* of either slot and no memory changes.
C8_Step ==
    \A n \in Slots :
        (out'.op = "kill" /\ out'.slot = n /\ ~is_running(n))
            => out'.res = "NotRunning" /\ AllButOutUnchanged
C8_KillIdleSlot == [][C8_Step]_vars
C8_Witness ==
    /\ out.op = "kill" /\ out.slot = 2 /\ out.res = "NotRunning"
    /\ sig[2] = SigInit
    /\ ~is_running(2)
    /\ data[2].argv # NULL
    /\ hpc[1] = "body"

\* C9: kill is idempotent on a Running slot.  A kill of a Running slot n
\* leaves the kill signal of n signalled with the value n whatever the
\* signal was before, and changes nothing else; a kill of slot n that
\* follows a kill of slot n changes neither slot, signal nor memory.
C9_Step ==
    \A n \in Slots :
        /\ (out'.op = "kill" /\ out'.slot = n /\ is_running(n))
            => /\ out'.res = "Raised"
               /\ sig' = [sig EXCEPT ![n] = [signaled |-> 1, result |-> n]]
               /\ UNCHANGED <<work, hpc, jb, data, heap, err, pc, cur>>
        /\ (/\ out.op = "kill" /\ out.slot = n /\ out.res = "Raised"
            /\ out'.op = "kill" /\ out'.slot = n)
            => out'.res = "Raised" /\ AllButOutUnchanged
C9_KillIdempotent == [][C9_Step]_vars
C9_Witness ==
    \E n \in Slots :
        /\ out = Report("kill", n, "Raised", 1)
        /\ hpc[n] = "body"
        /\ sig[n] = [signaled |-> 1, result |-> n]

\* C10 as stated: the kill signal is scoped to one run: whenever a job is
\* started on a slot (its work item is submitted), the kill signal of the
\* slot is not signalled.
C10_Step ==
    \A s \in Slots :
        (~work[s].queued /\ work'[s].queued) => sig'[s].signaled = 0
C10_SignalScopedToRun == [][C10_Step]_vars

\* C11 as stated: th_ctrl_kill_em_all raises the kill signal of both slots
\* whatever their state: after it both signals are signalled.
C11_RaisesBothUnconditionally ==
    [][out'.op = "kill_all" => \A s \in Slots : sig'[s].signaled = 1]_vars
\* C11: th_ctrl_kill_em_all raises the kill signal of every slot that is
\* Running, with the slot number as value, leaves the kill signal of an Idle
\* slot as it was, changes nothing else and never reports NotRunning.
C11_Step ==
    out'.op = "kill_all"
        => /\ \A s \in Slots :
                sig'[s] = IF is_running(s)
                          THEN [signaled |-> 1, result |-> s]
                          ELSE sig[s]
           /\ out'.res # "NotRunning"
           /\ UNCHANGED <<work, hpc, jb, data, heap, err, pc, cur>>
C11_KillAllRaisesRunningOnly == [][C11_Step]_vars
C11_Witness ==
    /\ out.op = "kill_all"
    /\ hpc[1] = "body" /\ sig[1] = [signaled |-> 1, result |-> 1]
    /\ ~is_running(2) /\ sig[2] = SigInit /\ data[2].argv # NULL

\* the number of blocks of the memory that are allocated
LiveBlocks(h) == Cardinality({p \in 1..HeapSize : h[p].k # "free"})
\* the fields of slot s, by content
SlotContent(h, d) ==
    <<ResultsOf(h, d), IF d.results_str = NULL THEN 0 ELSE strlen(h, d.results_str),
      ArgvOf(h, d), d.argc, d.cmd_len, d.background>>

\* C12 as stated: a start that fails with OutOfMemory leaves the slot Idle
\* with no partial state: the slot's fields are either all as before the
\* call or all cleared (no argv, argc 0, no result buffer), and no memory
\* acquired by the failed call is still allocated.
C12_Step ==
    (out'.op = "start" /\ out'.res = "OutOfMemory")
        => \A s \in Slots : out'.slot = s =>
           /\ ~is_running(s)'
           /\ \/ SlotContent(heap', data'[s]) = SlotContent(heap, data[s])
              \/ /\ data'[s].argv = NULL
                 /\ data'[s].argc = 0
                 /\ data'[s].results_str = NULL
           /\ LiveBlocks(heap') <= LiveBlocks(heap)
C12_FailedStartLeavesNoPartialState == [][C12_Step]_vars

\* C13 as stated: th_ctrl_status_print reports a slot as running exactly
\* when the slot is Running (its work item is pending), for both slots and
\* both modes, and shows the command line of a Running slot.
C13_Step ==
    out'.op = "status"
        => \A s \in Slots :
            /\ out'.st[s].running = is_running(s)
            /\ is_running(s) => out'.st[s].cmd # ""
C13_StatusShowsRunning == [][C13_Step]_vars

\* the words of an argument list, each followed by one space
RECURSIVE Joined(_)
Joined(args) == IF args = <<>> THEN "" ELSE Head(args) \o " " \o Joined(Tail(args))

\* C14: the command line th_ctrl_data_status_print rebuilds from the
\* argument vector a start has stored is the job kind and every argument of
\* the request, in their order, unaltered, each followed by a single space:
\* nothing is dropped by the length test of the join.
C14_Step ==
    (out.op = "duplicate_argv" /\ out.res = "array" /\ out'.op = "command_str")
        => out'.kind = Joined(out.st)
C14_CommandLineRoundTrip == [][C14_Step]_vars
C14_Witness ==
    /\ out.op = "command_str"
    /\ data[1].argc = MaxArgs
    /\ Len(ArgvStrings(heap, data[1])) = MaxArgs
    /\ ArgvStrings(heap, data[1])[1] = "iperf3"
    /\ ArgvStrings(heap, data[1])[2] # ArgvStrings(heap, data[1])[MaxArgs]
    /\ out.kind = Joined(ArgvStrings(heap, data[1]))

\* what slot t holds and whether it runs, by content
SlotView(t) == <<SlotContent(heap, data[t]), sig[t], work[t], hpc[t]>>

\* C15: the slots are independent. A start, a kill or a result request
\* served by one slot leaves the argv, argc, result buffer and its text,
\* mode, kill signal and work item of the other slot as they were; a step of
\* a work handler (entry, a write of the job body, its return, its reaction
\* to a kill, the return of the handler) changes one slot at most. Both
\* slots can be Running at once.
C15_Step ==
    /\ \A s \in Slots :
        (out'.op \in {"start", "kill", "result"} /\ out'.slot = s)
            => SlotView(3 - s)' = SlotView(3 - s)
    /\ out' = OutNone => \E t \in Slots : SlotView(t)' = SlotView(t)
C15_SlotsIndependent == [][C15_Step]_vars
C15_Witness ==
    /\ out.op = "kill" /\ out.slot = 2 /\ out.res = "Raised"
    /\ hpc[1] = "body" /\ hpc[2] = "body"
    /\ data[1].background /\ ~data[2].background
    /\ sig[1] = SigInit

\* C16 as stated: releasing an argument vector frees every string of it and
\* the pointer array, so after any sequence of starts, completions, result
\* requests and restarts the only duplicated strings still allocated are
\* those of the argument vector a slot holds now.
C16_OnlyCurrentArgvStringsLive ==
    \A p \in 1..HeapSize :
        heap[p].k = "str"
            => \E s \in Slots : data[s].argv # NULL /\ InSeq(p, Elems(heap, data[s].argv))

\* C17 as stated: th_ctrl_util_duplicate_argv is all-or-nothing. When the
\* allocation of the pointer array or of any element fails, everything the
\* call had allocated is released again and NULL is returned; when it
\* succeeds the result has the length of the input and its element k is a
\* copy of the input's element k.
C17_Step ==
    out'.op = "duplicate_argv"
        => IF out'.res = "NULL"
           THEN /\ data'[1].argv = NULL
                /\ LiveBlocks(heap') = LiveBlocks(heap)
           ELSE /\ ArgvStrings(heap', data'[1]) = out'.st
                /\ LiveBlocks(heap') = LiveBlocks(heap) + Len(out'.st) + 1
C17_DuplicateAllOrNothing == [][C17_Step]_vars

\* C18 as stated: in every reachable state a slot holds an allocated result
\* buffer only if the mode recorded for the slot is background.
C18_BufferOnlyInBackgroundMode ==
    \A s \in Slots : data[s].results_str # NULL => data[s].background

\* the number of result buffers allocated
BufBlocks(h) == Cardinality({p \in 1..HeapSize : h[p].k = "buf"})

\* C19: a start on an Idle slot that still holds a result buffer allocates
\* no second buffer. When the start is a background start that succeeds the
\* slot keeps its buffer, zero-filled, whatever text was unread in it; when
\* it is a foreground start that succeeds the buffer is released. After any
\* start the buffer of the slot, if it has one, holds no text, so no result
\* or status request made after it sees output of the previous run.
C19_Step ==
    \A s \in Slots :
        (out'.op = "start" /\ out'.slot = s)
            => /\ data'[s].results_str # NULL
                    => strlen(heap', data'[s].results_str) = 0
               /\ (data[s].results_str # NULL /\ out'.res = "Started")
                    => IF data'[s].background
                       THEN /\ data'[s].results_str # NULL
                            /\ BufBlocks(heap') = BufBlocks(heap)
                       ELSE /\ data'[s].results_str = NULL
                            /\ BufBlocks(heap') = BufBlocks(heap) - 1
C19_RestartReusesBuffer == [][C19_Step]_vars
C19_Witness ==
    \E s \in Slots :
        /\ out.op = "start" /\ out.slot = s /\ out.res = "Started"
        /\ out.len > 0
        /\ data[s].background
        /\ data[s].results_str # NULL
        /\ strlen(heap, data[s].results_str) = 0
        /\ BufBlocks(heap) = 1

\* C20: the asserts of th_ctrl_work_handler never fail, and from the entry
\* of the handler to the return of the job body the slot keeps what they
\* tested, whatever the control thread does meanwhile: argv is not NULL,
\* results_str is not NULL exactly when the recorded mode is background,
\* and the argv and the buffer iperf_main was handed are still the slot's
\* and still allocated.
C20_WorkerAssertionsHold ==
    /\ err \cap {"assert_argv", "assert_bg_results", "assert_fg_results"} = {}
    /\ \A s \in Slots :
        hpc[s] = "body"
            => /\ data[s].argv # NULL
               /\ data[s].background <=> data[s].results_str # NULL
               /\ jb[s].argv = data[s].argv
               /\ jb[s].buf = data[s].results_str
               /\ ArgvLive(heap, jb[s])
               /\ BufLive(heap, jb[s])
C20_Witness ==
    /\ out.op = "status"
    /\ out.st[1].running
    /\ hpc[1] = "body" /\ data[1].background
    /\ hpc[2] = "body" /\ ~data[2].background /\ data[2].results_str = NULL
    /\ err = {}
====
